---- MODULE Spec2Model ----
(***************************************************************************)
(* State-machine model of package timecache (src/timecache.go).            *)
(*                                                                         *)
(* A TimeCache owns an int64 (cachedTimeNano) that a background goroutine  *)
(* (updateLoop) refreshes from the wall clock on every tick of a           *)
(* time.Ticker, until the stop channel is closed by Stop().  Any number of *)
(* goroutines read the value with atomic loads.                            *)
(*                                                                         *)
(* Every public method body is one atomic operation on shared memory       *)
(* (one atomic load, one field read, one close), so the callers need no    *)
(* identity: a public call is one action, and any number of calling        *)
(* goroutines is the free interleaving of these actions.  The constructor  *)
(* and updateLoop are several statements long and are modelled statement   *)
(* by statement, each with its own program counter.                        *)
(***************************************************************************)
EXTENDS Integers, Sequences, FiniteSets

\* ------------------------------------------------------------------ bounds
\* number of times the wall clock advances
MaxSteps == 2
\* number of Stop() calls made on one instance
MaxStops == 2

\* ------------------------------------------------------- program constants
\* time.Microsecond, in nanoseconds (the unit of time.Duration)
Microsecond == 1000
Millisecond == 1000 * Microsecond
Second == 1000 * Millisecond
\* a default of one millisecond (not the code's)
MillisecondResolution == Millisecond
\* the default resolution: 500 * time.Microsecond
DefaultResolution == 500 * Microsecond
\* the zero value of a *TimeCache
Nil == "nil"
\* the zero value of an int64 field
ZeroInt64 == 0

\* --------------------------------------------------------- the environment
\* the wall clock advances in steps of one default period
Step == 500 * Microsecond
\* the wall clock when the process starts: one step before a whole second
StartNano == Second - Step
ClockValues == {StartNano + k * Step : k \in 0..MaxSteps}
\* resolutions the callers pass to NewWithResolution
ResolutionInputs == {Millisecond, 0, 0 - Microsecond}

\* The instances of a run: the one package init() builds and one built by a caller.
\* Instances share nothing but the wall clock, so two show every interference.
Inst == {"default", "custom"}
\* marks "no read yet" in the history variables
NoRead == 0 - 1

VARIABLES
    clock,           \* the wall clock, nanoseconds since the epoch
    defaultCache,    \* var defaultCache *TimeCache
    cachedTimeNano,  \* tc.cachedTimeNano, per instance
    ticker,          \* tc.ticker, per instance: NilTicker or the ticker's state
    stopCh,          \* tc.stopCh, per instance: "nil", "open", "closed"
    resolution,      \* tc.resolution, per instance
    ctorPc,          \* position of the constructor call that builds the instance
    ctorBy,          \* which function called the constructor
    pendingInit,     \* fields the constructor has still to write (plain writes)
    loopPc,          \* position of the instance's updateLoop goroutine
    now,             \* updateLoop's time.Now().UnixNano() awaiting its store
    race,            \* two unordered conflicting accesses, one of them plain, met
    stopLog,         \* history: outcome of each Stop() call, per instance, in order
    stored,          \* history: per instance, the last sample handed to a store of
                     \* cachedTimeNano and who stored it: "ctor" or "loop"
    ret              \* history: the last completed read: its instance, the word it
                     \* loaded, and its phase: "live" (made before any Stop() of the
                     \* instance), "held" (a "live" read whose value was still the
                     \* cached one when Stop() was then called), "stopped" (made
                     \* after Stop() returned)

vars == <<clock, defaultCache, cachedTimeNano, ticker, stopCh, resolution, ctorPc,
          ctorBy, pendingInit, loopPc, now, race, stopLog, stored, ret>>

instVars == <<cachedTimeNano, ticker, stopCh, resolution>>
ctorVars == <<ctorPc, ctorBy, pendingInit>>
loopVars == <<loopPc, now>>
histVars == <<stopLog, stored, ret>>

\* ------------------------------------------------------------ package time
\* time.Now(): the wall clock as a Time (seconds and nanoseconds within the second)
Now == [sec |-> clock \div Second, nsec |-> clock % Second]

\* a conversion that drops the seconds (not Go's)
UnixNanoNsecOnly(t) == t.nsec

\* a conversion that rounds up to the next whole second (not Go's)
UnixNanoRoundedUp(t) == (t.sec + 1) * Second

\* Time.UnixNano()
UnixNano(t) == t.sec * Second + t.nsec

\* time.Unix(sec, nsec): nsec outside [0, 1e9) is carried into sec
Unix(sec, nsec) == [sec |-> sec + (nsec \div Second), nsec |-> nsec % Second]

\* Time.UTC().Format(time.RFC3339Nano): the fields of
\* "2006-01-02T15:04:05.999999999Z07:00"; the fraction drops its trailing zeros
\* (and is absent when zero), the zone of a UTC time prints as "Z".
RECURSIVE TrimZeros(_, _)
TrimZeros(n, width) ==
    IF n = 0 THEN <<>>
    ELSE IF n % 10 = 0 THEN TrimZeros(n \div 10, width - 1)
    ELSE <<n, width>>

SecondsPerDay == 24 * 60 * 60
\* the layout without the fraction, time.RFC3339 (not the code's)
FormatRFC3339(t) ==
    LET days == t.sec \div SecondsPerDay
        rem  == t.sec % SecondsPerDay
    IN  [year |-> 1970, month |-> 1, day |-> 1 + days,
         hour |-> rem \div 3600, minute |-> (rem % 3600) \div 60, second |-> rem % 60,
         frac |-> <<>>, zone |-> "Z"]

FormatRFC3339Nano(t) ==
    LET days == t.sec \div SecondsPerDay
        rem  == t.sec % SecondsPerDay
    IN  [year |-> 1970, month |-> 1, day |-> 1 + days,
         hour |-> rem \div 3600, minute |-> (rem % 3600) \div 60, second |-> rem % 60,
         frac |-> TrimZeros(t.nsec, 9), zone |-> "Z"]

\* time.Parse(time.RFC3339Nano, s): the fields must be in range and the zone
\* present; the fraction is optional, of one to nine digits, and is scaled to
\* nanoseconds.  The result is the Time the fields denote.
RECURSIVE Pow10(_)
Pow10(k) == IF k = 0 THEN 1 ELSE 10 * Pow10(k - 1)

ParseRFC3339Nano(s) ==
    LET fracOk == s.frac = <<>> \/ (Len(s.frac) = 2 /\ s.frac[2] \in 1..9
                                       /\ s.frac[1] \in 0..(Pow10(s.frac[2]) - 1))
        ok == /\ s.year = 1970 /\ s.month = 1 /\ s.day \in 1..31
              /\ s.hour \in 0..23 /\ s.minute \in 0..59 /\ s.second \in 0..59
              /\ s.zone = "Z"
              /\ fracOk
    IN  [ok |-> ok,
         t |-> IF ok
               THEN [sec |-> (s.day - 1) * SecondsPerDay + s.hour * 3600
                                + s.minute * 60 + s.second,
                     nsec |-> IF s.frac = <<>> THEN 0
                              ELSE s.frac[1] * Pow10(9 - s.frac[2])]
               ELSE [sec |-> 0, nsec |-> 0]]

\* time.NewTicker(d): panics unless d > 0; the ticker's channel C has a buffer of one
\* and the first tick is due one period from now.
\* a NewTicker that accepts every duration (not time.NewTicker)
NewTickerNeverPanics(d) == FALSE
NewTickerPanics(d) == d <= 0
\* a ticker that is never started (not time.NewTicker)
NewTickerStopped(d) == [set |-> TRUE, running |-> FALSE, C |-> FALSE, when |-> 0, period |-> d]
NewTicker(d) == [set |-> TRUE, running |-> TRUE, C |-> FALSE, when |-> clock + d, period |-> d]
\* the nil *time.Ticker of a TimeCache whose ticker field is not assigned yet
NilTicker == [set |-> FALSE, running |-> FALSE, C |-> FALSE, when |-> 0, period |-> 0]

\* -------------------------------------------------------------------- Init
\* The process starts with no TimeCache; package init() builds the default one.
Init ==
    /\ clock = StartNano
    /\ defaultCache = Nil
    /\ cachedTimeNano = [i \in Inst |-> ZeroInt64]
    /\ ticker = [i \in Inst |-> NilTicker]
    /\ stopCh = [i \in Inst |-> "nil"]
    /\ resolution = [i \in Inst |-> 0]
    /\ ctorPc = [i \in Inst |-> "none"]
    /\ ctorBy = [i \in Inst |-> "none"]
    /\ pendingInit = [i \in Inst |-> {}]
    /\ loopPc = [i \in Inst |-> "none"]
    /\ now = [i \in Inst |-> ZeroInt64]
    /\ race = FALSE
    /\ stopLog = [i \in Inst |-> <<>>]
    /\ stored = [i \in Inst |-> [val |-> NoRead, by |-> "none"]]
    /\ ret = [inst |-> Nil, nanos |-> NoRead, phase |-> "live"]

\* ------------------------------------------------------ NewWithResolution
\* a constructor that takes no initial sample (not the code's)
CtorNextNoSample(pc) ==
    CASE pc = "start" -> "L57"
      [] pc = "L57" -> "L60"
      [] pc = "L60" -> "L62"
      [] pc = "L62" -> "done"

\* a constructor that starts the goroutine first (not the code's)
CtorNextGoFirst(pc) ==
    CASE pc = "start" -> "L60"
      [] pc = "L60" -> "L56"
      [] pc = "L56" -> "L57"
      [] pc = "L57" -> "L62"
      [] pc = "L62" -> "done"

\* The statements of NewWithResolution after the struct literal ("start"), in
\* program order: L56 the initial sample, L57 time.NewTicker, L60 go tc.updateLoop(),
\* L62 return tc.
CtorNext(pc) ==
    CASE pc = "start" -> "L56"
      [] pc = "L56" -> "L57"
      [] pc = "L57" -> "L60"
      [] pc = "L60" -> "L62"
      [] pc = "L62" -> "done"

\* a handle that serves its callers only until Stop() is called (not the code's)
LiveUntilStopped(i) == ctorPc[i] = "done" /\ stopLog[i] = <<>>

\* the handle of instance i has been returned to the caller
Live(i) == ctorPc[i] = "done"

\* a constructor that builds on an instance already in use (not the code's)
FreeInstReused(by) ==
    {i \in Inst : i = "default" <=> by = "init"}

\* the instance a constructor call allocates: the next unused one
FreeInst(by) ==
    {i \in Inst : ctorPc[i] = "none" /\ (i = "default" <=> by = "init")}

\* tc := &TimeCache{resolution: resolution, stopCh: make(chan struct{})}
Alloc(i, d, by) ==
    /\ resolution' = [resolution EXCEPT ![i] = d]
    /\ stopCh' = [stopCh EXCEPT ![i] = "open"]
    /\ ctorBy' = [ctorBy EXCEPT ![i] = by]
    /\ ctorPc' = [ctorPc EXCEPT ![i] = CtorNext("start")]
    /\ pendingInit' = [pendingInit EXCEPT ![i] = {"cachedTimeNano", "ticker"}]
    /\ UNCHANGED <<clock, defaultCache, cachedTimeNano, ticker, loopVars, race,
                   histVars>>

\* func init(): defaultCache = NewWithResolution(500 * time.Microsecond)
PkgInit ==
    /\ defaultCache = Nil
    /\ \E i \in FreeInst("init") : Alloc(i, DefaultResolution, "init")

\* main and every user goroutine start after package init() has returned
InitDone == defaultCache # Nil

\* func New(): NewWithResolution(500 * time.Microsecond)
New ==
    /\ InitDone
    /\ \E i \in FreeInst("New") : Alloc(i, DefaultResolution, "New")

\* func NewWithResolution(resolution): entry and struct literal
NewWithResolution(d) ==
    /\ InitDone
    /\ \E i \in FreeInst("NewWithResolution") : Alloc(i, d, "NewWithResolution")

\* L56: tc.cachedTimeNano = time.Now().UnixNano()   (a plain write)
CtorSample(i) ==
    /\ ctorPc[i] = "L56"
    /\ cachedTimeNano' = [cachedTimeNano EXCEPT ![i] = UnixNano(Now)]
    /\ stored' = [stored EXCEPT ![i] = [val |-> UnixNano(Now), by |-> "ctor"]]
    /\ pendingInit' = [pendingInit EXCEPT ![i] = @ \ {"cachedTimeNano"}]
    /\ ctorPc' = [ctorPc EXCEPT ![i] = CtorNext(@)]
    \* unordered with the accesses of an updateLoop or a reader that already runs
    /\ race' = (race \/ loopPc[i] # "none" \/ Live(i))
    /\ UNCHANGED <<clock, defaultCache, ticker, stopCh, resolution, ctorBy, loopVars,
                   stopLog, ret>>

\* L57: tc.ticker = time.NewTicker(resolution); NewTicker panics on d <= 0 and the
\* constructor call ends there.  (A panic that no caller recovers ends the process:
\* the run takes no further step, which every behaviour is free to do.)
CtorTicker(i) ==
    /\ ctorPc[i] = "L57"
    /\ IF NewTickerPanics(resolution[i])
       THEN /\ ctorPc' = [ctorPc EXCEPT ![i] = "panicked"]
            /\ UNCHANGED <<ticker, pendingInit, race>>
       ELSE /\ ticker' = [ticker EXCEPT ![i] = NewTicker(resolution[i])]
            /\ pendingInit' = [pendingInit EXCEPT ![i] = @ \ {"ticker"}]
            /\ ctorPc' = [ctorPc EXCEPT ![i] = CtorNext(@)]
            /\ race' = (race \/ loopPc[i] # "none")
    /\ UNCHANGED <<clock, defaultCache, cachedTimeNano, stopCh, resolution, ctorBy,
                   loopVars, histVars>>

\* L60: go tc.updateLoop()
CtorGo(i) ==
    /\ ctorPc[i] = "L60"
    /\ loopPc' = [loopPc EXCEPT ![i] = "select"]
    /\ ctorPc' = [ctorPc EXCEPT ![i] = CtorNext(@)]
    /\ UNCHANGED <<clock, defaultCache, instVars, ctorBy, pendingInit, now, race,
                   histVars>>

\* a package where every constructor call installs its result as the default
\* instance (not the code's)
AnyCtorAssigns(by, i) == i

\* where the constructor's result goes: init() assigns it to defaultCache, the
\* callers of New and NewWithResolution keep it to themselves
InitAssign(by, i) == IF by = "init" THEN i ELSE defaultCache

\* L62: return tc; init() assigns the result to defaultCache
CtorReturn(i) ==
    /\ ctorPc[i] = "L62"
    /\ ctorPc' = [ctorPc EXCEPT ![i] = CtorNext(@)]
    /\ defaultCache' = InitAssign(ctorBy[i], i)
    /\ UNCHANGED <<clock, instVars, ctorBy, pendingInit, loopVars, race,
                   histVars>>

\* --------------------------------------------------------------- the ticker
\* The runtime timer of a running ticker fires once the clock has reached `when`:
\* a non-blocking send on C (the tick is dropped when C is full), and the next
\* firing is set to the first period boundary after the clock.
TickerFire(i) ==
    /\ ticker[i].running
    /\ clock >= ticker[i].when
    /\ ticker' = [ticker EXCEPT ![i].C = TRUE,
                                ![i].when = @ + ticker[i].period
                                      * (1 + (clock - @) \div ticker[i].period)]
    /\ UNCHANGED <<clock, defaultCache, cachedTimeNano, stopCh, resolution, ctorVars,
                   loopVars, race, histVars>>

\* the wall clock advances (it never moves backward)
ClockAdvance ==
    /\ clock < StartNano + MaxSteps * Step
    /\ clock' = clock + Step
    /\ UNCHANGED <<defaultCache, instVars, ctorVars, loopVars, race, histVars>>

\* --------------------------------------------------------------- updateLoop
\* a store that replaces the upper part of the word only (not atomic.StoreInt64)
TornStoreInt64(old, v) == ((v \div (2^16)) * (2^16)) + (old % (2^16))

\* atomic.StoreInt64(&tc.cachedTimeNano, v): the whole word is replaced at once
AtomicStoreInt64(old, v) == v

\* a read that samples the wall clock itself (not the code's)
LiveSampleInt64(i) == UnixNano(Now)

\* atomic.LoadInt64(&tc.cachedTimeNano)
AtomicLoadInt64(i) == cachedTimeNano[i]

\* an access that is no atomic operation (not the code's)
PlainAccess == "plain"

\* how the two sides access cachedTimeNano once the instance is shared: the reads
\* through atomic.LoadInt64, updateLoop through atomic.StoreInt64
LoadKind == "atomic"

StoreKind == "atomic"

\* select, case <-tc.ticker.C
LoopRecvTick(i) ==
    /\ loopPc[i] = "select"
    /\ ticker[i].C
    /\ ticker' = [ticker EXCEPT ![i].C = FALSE]
    /\ loopPc' = [loopPc EXCEPT ![i] = "L71now"]
    /\ race' = (race \/ "ticker" \in pendingInit[i])
    /\ UNCHANGED <<clock, defaultCache, cachedTimeNano, stopCh, resolution, ctorVars,
                   now, histVars>>

\* a tick handler that adds the interval to the value it holds (not the code's)
LoopNowAddsInterval(i) ==
    /\ loopPc[i] = "L71now"
    /\ now' = [now EXCEPT ![i] = cachedTimeNano[i] + resolution[i]]
    /\ loopPc' = [loopPc EXCEPT ![i] = "L71store"]
    /\ UNCHANGED <<clock, defaultCache, instVars, ctorVars, race, histVars>>

\* L71, the argument: time.Now().UnixNano()
LoopNow(i) ==
    /\ loopPc[i] = "L71now"
    /\ now' = [now EXCEPT ![i] = UnixNano(Now)]
    /\ loopPc' = [loopPc EXCEPT ![i] = "L71store"]
    /\ UNCHANGED <<clock, defaultCache, instVars, ctorVars, race, histVars>>

\* L71, the call: atomic.StoreInt64(&tc.cachedTimeNano, ...)
LoopStore(i) ==
    /\ loopPc[i] = "L71store"
    /\ cachedTimeNano' = [cachedTimeNano EXCEPT ![i] = AtomicStoreInt64(@, now[i])]
    /\ stored' = [stored EXCEPT ![i] = [val |-> now[i], by |-> "loop"]]
    /\ now' = [now EXCEPT ![i] = ZeroInt64]
    /\ loopPc' = [loopPc EXCEPT ![i] = "select"]
    /\ race' = (race \/ "cachedTimeNano" \in pendingInit[i])
    /\ UNCHANGED <<clock, defaultCache, ticker, stopCh, resolution, ctorVars,
                   stopLog, ret>>

\* a stop case that is ready on an open channel too (not Go's receive)
LoopRecvStopOnOpen(i) ==
    /\ loopPc[i] = "select"
    /\ loopPc' = [loopPc EXCEPT ![i] = "L73"]
    /\ race' = (race \/ "ticker" \in pendingInit[i])
    /\ UNCHANGED <<clock, defaultCache, instVars, ctorVars, now, histVars>>

\* select, case <-tc.stopCh: a receive from a closed channel is always ready; when
\* ticker.C is ready too, select takes either case
LoopRecvStop(i) ==
    /\ loopPc[i] = "select"
    /\ stopCh[i] = "closed"
    /\ loopPc' = [loopPc EXCEPT ![i] = "L73"]
    /\ race' = (race \/ "ticker" \in pendingInit[i])
    /\ UNCHANGED <<clock, defaultCache, instVars, ctorVars, now, histVars>>

\* a stop branch that publishes a last sample before it returns (not the code's)
LoopStopPublishes(i) ==
    /\ loopPc[i] = "L73"
    /\ ticker' = [ticker EXCEPT ![i].running = FALSE, ![i].when = 0]
    /\ cachedTimeNano' = [cachedTimeNano EXCEPT ![i] = UnixNano(Now)]
    /\ loopPc' = [loopPc EXCEPT ![i] = "exited"]
    /\ UNCHANGED <<clock, defaultCache, stopCh, resolution, ctorVars, now, race,
                   histVars>>

\* a stop branch that stops the ticker and goes on with the loop (not the code's)
LoopStopContinues(i) ==
    /\ loopPc[i] = "L73"
    /\ ticker' = [ticker EXCEPT ![i].running = FALSE, ![i].when = 0]
    /\ loopPc' = [loopPc EXCEPT ![i] = "select"]
    /\ UNCHANGED <<clock, defaultCache, cachedTimeNano, stopCh, resolution, ctorVars,
                   now, race, histVars>>

\* a stop branch that returns and leaves the ticker running (not the code's)
LoopReturnsOnly(i) ==
    /\ loopPc[i] = "L73"
    /\ loopPc' = [loopPc EXCEPT ![i] = "exited"]
    /\ UNCHANGED <<clock, defaultCache, instVars, ctorVars, now, race, histVars>>

\* L73-74: tc.ticker.Stop(); return.  Ticker.Stop deletes the runtime timer, so no
\* more ticks are sent, and leaves the channel as it is.
LoopTickerStop(i) ==
    /\ loopPc[i] = "L73"
    /\ ticker' = [ticker EXCEPT ![i].running = FALSE, ![i].when = 0]
    /\ loopPc' = [loopPc EXCEPT ![i] = "exited"]
    /\ UNCHANGED <<clock, defaultCache, cachedTimeNano, stopCh, resolution, ctorVars,
                   now, race, histVars>>

updateLoop(i) ==
    \/ LoopRecvTick(i)
    \/ LoopNow(i)
    \/ LoopStore(i)
    \/ LoopRecvStop(i)
    \/ LoopTickerStop(i)

\* ------------------------------------------------------- the public methods
ReadOps == {"CachedTimeNano", "CachedTime", "CachedTimeString"}

\* what a read hands to its caller, from the nanoseconds it loaded
ReadResult(op, nanos) ==
    CASE op = "CachedTimeNano" -> nanos
      [] op = "CachedTime" -> Unix(0, nanos)
      [] op = "CachedTimeString" -> FormatRFC3339Nano(Unix(0, nanos))

\* The three reads: one atomic load, then a conversion of the loaded word.  The
\* state keeps the loaded word; what the caller gets is ReadResult(op, ret.nanos).
Read(i) ==
    /\ Live(i)
    /\ ret' = [inst |-> i, nanos |-> AtomicLoadInt64(i),
               phase |-> IF stopLog[i] = <<>> THEN "live" ELSE "stopped"]
    \* unordered with a plain write still due in the constructor, or with the
    \* store updateLoop is about to make unless both accesses are atomic
    /\ race' = (\/ race
                \/ "cachedTimeNano" \in pendingInit[i]
                \/ (loopPc[i] = "L71store" /\ "plain" \in {LoadKind, StoreKind}))
    /\ UNCHANGED <<clock, defaultCache, instVars, ctorVars, loopVars, stopLog, stored>>

\* func (tc *TimeCache) CachedTimeNano() int64
CachedTimeNano(i) == Read(i)

\* func (tc *TimeCache) CachedTime() time.Time
CachedTime(i) == Read(i)

\* func (tc *TimeCache) CachedTimeString() string
CachedTimeString(i) == Read(i)

\* a Resolution() that reports the default whatever the instance (not the code's)
ResolutionAlwaysDefault(i) == DefaultResolution

\* return tc.resolution
ResolutionResult(i) == resolution[i]

\* func (tc *TimeCache) Resolution() time.Duration
Resolution(i) ==
    /\ Live(i)
    /\ UNCHANGED vars

\* a close that accepts a closed channel (not Go's)
CloseIdempotent(ch) == [ch |-> "closed", panics |-> FALSE]

\* a close that signals nothing (not Go's)
CloseNoop(ch) == [ch |-> ch, panics |-> FALSE]

\* a close that reopens the closed channel it panics on (not Go's)
CloseReopening(ch) ==
    [ch |-> IF ch = "open" THEN "closed" ELSE "open", panics |-> ch # "open"]

\* close(tc.stopCh): closes an open channel; panics on a closed one
\* ("close of closed channel") and leaves it closed
Close(ch) == [ch |-> "closed", panics |-> ch # "open"]

\* a Stop() that signals every instance (not the code's)
StopAll(i) ==
    /\ Live(i)
    /\ Len(stopLog[i]) < MaxStops
    /\ stopCh' = [j \in Inst |-> IF stopCh[j] = "nil" THEN "nil" ELSE "closed"]
    /\ stopLog' = [stopLog EXCEPT ![i] =
                       Append(@, IF Close(stopCh[i]).panics THEN "panic" ELSE "ok")]
    /\ UNCHANGED <<clock, defaultCache, cachedTimeNano, ticker, resolution, ctorVars,
                   loopVars, race, stored, ret>>

\* a Stop() that hands the signal over to the loop, a send on an unbuffered
\* channel that waits for the loop's select (not the code's)
StopBySend(i) ==
    /\ Live(i)
    /\ Len(stopLog[i]) < MaxStops
    /\ loopPc[i] = "select"
    /\ loopPc' = [loopPc EXCEPT ![i] = "L73"]
    /\ stopLog' = [stopLog EXCEPT ![i] = Append(@, "ok")]
    /\ UNCHANGED <<clock, defaultCache, instVars, ctorVars, now, race, stored, ret>>

\* func (tc *TimeCache) Stop()
Stop(i) ==
    /\ Live(i)
    /\ Len(stopLog[i]) < MaxStops
    /\ LET c == Close(stopCh[i])
       IN  /\ stopCh' = [stopCh EXCEPT ![i] = c.ch]
           /\ stopLog' = [stopLog EXCEPT ![i] = Append(@, IF c.panics THEN "panic" ELSE "ok")]
    /\ ret' = IF ret.inst = i /\ ret.phase = "live" /\ ret.nanos = cachedTimeNano[i]
              THEN [ret EXCEPT !.phase = "held"]
              ELSE ret
    /\ UNCHANGED <<clock, defaultCache, cachedTimeNano, ticker, resolution, ctorVars,
                   loopVars, race, stored>>

\* --------------------------------------------------- the package-level API
\* a DefaultCache() that hands out the newest instance (not the code's)
NewestInstance == IF Live("custom") THEN "custom" ELSE defaultCache

\* return defaultCache
DefaultCacheResult == defaultCache

\* a package-level read that serves the newest instance (not the code's)
PkgReadsNewest == InitDone /\ CachedTimeNano(NewestInstance)

\* func CachedTimeNano() int64: defaultCache.CachedTimeNano()
PkgCachedTimeNano == InitDone /\ CachedTimeNano(defaultCache)

\* func CachedTime() time.Time: defaultCache.CachedTime()
PkgCachedTime == InitDone /\ CachedTime(defaultCache)

\* func CachedTimeString() string: defaultCache.CachedTimeString()
PkgCachedTimeString == InitDone /\ CachedTimeString(defaultCache)

\* func DefaultCache() *TimeCache: return defaultCache
DefaultCache ==
    /\ InitDone
    /\ UNCHANGED vars

\* func StopDefaultCache(): defaultCache.Stop()
StopDefaultCache == InitDone /\ Stop(defaultCache)

\* ------------------------------------------------------- the specification
Next ==
    \/ PkgInit
    \/ New
    \/ \E d \in ResolutionInputs : NewWithResolution(d)
    \/ \E i \in Inst : CtorSample(i)
    \/ \E i \in Inst : CtorTicker(i)
    \/ \E i \in Inst : CtorGo(i)
    \/ \E i \in Inst : CtorReturn(i)
    \/ \E i \in Inst : TickerFire(i)
    \/ ClockAdvance
    \/ \E i \in Inst : updateLoop(i)
    \/ \E i \in Inst : CachedTimeNano(i)
    \/ \E i \in Inst : CachedTime(i)
    \/ \E i \in Inst : CachedTimeString(i)
    \/ \E i \in Inst : Resolution(i)
    \/ \E i \in Inst : Stop(i)
    \/ PkgCachedTimeNano
    \/ PkgCachedTime
    \/ PkgCachedTimeString
    \/ DefaultCache
    \/ StopDefaultCache

Spec == Init /\ [][Next]_vars

\* For the claims about what eventually happens.  The run records the clock up to
\* its last value; time goes on past it, and a running ticker keeps firing.
TickerFireBeyond(i) ==
    /\ clock = StartNano + MaxSteps * Step
    /\ ticker[i].running
    /\ ~ticker[i].C
    /\ ticker' = [ticker EXCEPT ![i].C = TRUE]
    /\ UNCHANGED <<clock, defaultCache, cachedTimeNano, stopCh, resolution, ctorVars,
                   loopVars, race, histVars>>

\* The steps that decide whether a loop exits: the constructors, the ticker, the
\* clock, the loop and Stop.  The reads and the accessors write nothing but the
\* record of the last read, which none of these steps takes its course from.
FairNext ==
    \/ PkgInit
    \/ New
    \/ \E d \in ResolutionInputs : NewWithResolution(d)
    \/ \E i \in Inst : CtorSample(i)
    \/ \E i \in Inst : CtorTicker(i)
    \/ \E i \in Inst : CtorGo(i)
    \/ \E i \in Inst : CtorReturn(i)
    \/ \E i \in Inst : TickerFire(i)
    \/ ClockAdvance
    \/ \E i \in Inst : updateLoop(i)
    \/ \E i \in Inst : Stop(i)
    \/ StopDefaultCache
    \/ \E i \in Inst : TickerFireBeyond(i)

\* The scheduler runs a runnable updateLoop goroutine sooner or later (weak
\* fairness of its steps), and a select that finds several cases ready picks one
\* of them at random, so a case that is ready again and again is taken sooner or
\* later (strong fairness of the stop case).  Nothing is assumed of the callers,
\* the ticker or the clock.
FairSpec ==
    /\ Init
    /\ [][FairNext]_vars
    /\ \A i \in Inst : WF_vars(updateLoop(i))
    /\ \A i \in Inst : SF_vars(LoopRecvStop(i))

\* the same scheduler with a select that is only weakly fair to its cases
WeakFairSpec ==
    /\ Init
    /\ [][FairNext]_vars
    /\ \A i \in Inst : WF_vars(updateLoop(i))
    /\ \A i \in Inst : WF_vars(LoopRecvStop(i))

\* For the claims about the progress of an active cache: the wall clock advances,
\* the runtime fires the timer of a running ticker once it is due, and the
\* scheduler runs a runnable updateLoop goroutine sooner or later.
ProgressSpec ==
    /\ Init
    /\ [][FairNext]_vars
    /\ WF_vars(ClockAdvance)
    /\ \A i \in Inst : WF_vars(TickerFire(i))
    /\ \A i \in Inst : WF_vars(TickerFireBeyond(i))
    /\ \A i \in Inst : WF_vars(updateLoop(i))

\* ---------------------------------------------------------------- claims
\* A step that completes a read: only the reads and Stop write ret, and Stop alone
\* writes stopLog.  (A read that returns what the read before it returned, in the
\* same phase, leaves every variable as it is.)
ReadStep == ret' # ret /\ stopLog' = stopLog

\* the values the wall clock takes in a run, hence the samples a store may hold
Samples == ClockValues

\* C1: once Stop() has returned on an instance, every CachedTimeNano() issued after
\* it returns one and the same value: a read made after Stop() returns what the
\* read made after Stop() before it returned.
C1_ReadsAfterStopAgree ==
    [][(ReadStep /\ ret.phase = "stopped" /\ ret'.inst = ret.inst)
          => ret'.nanos = ret.nanos]_vars

\* C2: a caller that reads v and then calls Stop() reads exactly v ever after.
\* Stated for the reads the code treats best: v was still the cached value when
\* Stop() was called (phase "held").
C2_ReadAfterStopIsReadBefore ==
    [][(ReadStep /\ ret.phase = "held" /\ ret'.inst = ret.inst)
          => ret'.nanos = ret.nanos]_vars

\* C3: of the Stop() calls made on an instance, through Stop(), StopDefaultCache()
\* or DefaultCache().Stop(), the first to execute returns normally and every other
\* one panics.
C3_StopSingleUse ==
    \A i \in Inst : \A k \in 1..Len(stopLog[i]) :
        stopLog[i][k] = (IF k = 1 THEN "ok" ELSE "panic")

C3_Witness ==
    /\ stopLog["default"] = <<"ok", "panic">>
    /\ Len(stopLog["custom"]) = MaxStops

C5_LoopExitsAfterStop ==
    \A i \in Inst : (stopLog[i] # <<>>) ~> (loopPc[i] = "exited")

\* the goroutine has exited although a tick was ready to be taken
C5_Witness ==
    \E i \in Inst :
        /\ loopPc[i] = "exited"
        /\ ticker[i].C
        /\ clock = StartNano + MaxSteps * Step

\* C6: with a clock that never moves backward, the cached value of an instance never
\* decreases: the constructor's sample is the first value, and every value
\* updateLoop publishes is at least the one it replaces.
C6_CachedNonDecreasing ==
    [][\A i \in Inst : cachedTimeNano'[i] >= cachedTimeNano[i]]_vars

\* updateLoop has published twice past the constructor's sample
C6_Witness ==
    \E i \in Inst :
        /\ stored[i].by = "loop"
        /\ cachedTimeNano[i] = StartNano + 2 * Step
        /\ ret.inst = i
        /\ ret.nanos = StartNano + Step

\* C7: of two reads of an instance, the first returning before the second is called,
\* the second returns at least what the first returned.  (Reads change no state of
\* the program, so a read of another instance between the two changes nothing and
\* the pairs of successive reads of one instance show every case.)
C7_ReadsNonDecreasing ==
    [][(ReadStep /\ ret'.inst = ret.inst) => ret'.nanos >= ret.nanos]_vars

\* a read has returned, and updateLoop has published a later sample since
C7_Witness ==
    \E i \in Inst :
        /\ ret.inst = i
        /\ stored[i].by = "loop"
        /\ ret.nanos < cachedTimeNano[i]

\* each result of a read (the int64, the time.Time, the string) is the result of
\* one sample only
ResultsDetermineWord ==
    \A op \in ReadOps : \A v, w \in Samples :
        ReadResult(op, v) = ReadResult(op, w) => v = w

\* C8: a read returns the value stored whole last, at the moment of its load, be it
\* the constructor's sample or a sample updateLoop published, never a mix of two;
\* and each of the three results determines that value.
C8_ReadsReturnLastWholeStore ==
    [][ReadStep =>
          /\ ret'.nanos = stored[ret'.inst].val
          /\ ret'.nanos \in Samples
          /\ ResultsDetermineWord]_vars

\* a read returned the previous value while updateLoop held the next one, ready to
\* be stored
C8_Witness ==
    \E i \in Inst :
        /\ ret.inst = i
        /\ loopPc[i] = "L71store"
        /\ ret.nanos = cachedTimeNano[i]
        /\ now[i] > cachedTimeNano[i]

\* C9: no read meets an instance that is not initialised: every read returns a
\* sample of the clock, never the zero value, and a read made before updateLoop
\* has published anything returns the sample the constructor took.
C9_NoUninitialisedRead ==
    /\ ret.inst # Nil => ret.nanos # ZeroInt64 /\ ret.nanos \in Samples
    /\ \A i \in Inst : Live(i) =>
           /\ stored[i].by # "none"
           /\ stored[i].by = "ctor" => cachedTimeNano[i] = stored[i].val
           /\ cachedTimeNano[i] # ZeroInt64

\* the custom instance has been read before its updateLoop published anything,
\* next to a live default instance that holds its constructor's sample
C9_Witness ==
    /\ ret.inst = "custom"
    /\ stored["custom"].by = "ctor"
    /\ stored["default"].by = "ctor"
    /\ Live("default")
    /\ ret.nanos = stored["custom"].val

\* the last value of the wall clock that a run records
LastClock == StartNano + MaxSteps * Step

\* C11: the cached value of an active instance (handle returned, Stop() never
\* called) that is below the wall clock's last recorded value is replaced by a
\* strictly greater one sooner or later, so that every read made from then on
\* returns more than a read that returned it; or Stop() is called.
C11_ActiveCacheAdvances ==
    \A i \in Inst : \A v \in ClockValues \ {LastClock} :
        (Live(i) /\ stopLog[i] = <<>> /\ cachedTimeNano[i] = v)
            ~> (cachedTimeNano[i] > v \/ stopLog[i] # <<>>)

\* updateLoop has brought an instance that was never stopped, built at the start
\* of the run, to the last value of the clock
C11_Witness ==
    \E i \in Inst :
        /\ Live(i)
        /\ stopLog[i] = <<>>
        /\ stored[i].by = "loop"
        /\ cachedTimeNano[i] = LastClock

\* C12: reads are cached, not live: of two successive reads of an instance, with
\* the clock advancing between them as it may, the second differs from the first
\* only if a value other than the first's has been published since; with no
\* publish between them the two return the same word, hence the same int64 and
\* the same string.
C12_ReadsAreCached ==
    [][(ReadStep /\ ret'.inst = ret.inst /\ ret'.nanos # ret.nanos)
          => stored[ret.inst].val # ret.nanos]_vars

\* a read has returned the constructor's sample, nothing was published since, and
\* the clock is two steps past the sample
C12_Witness ==
    \E i \in Inst :
        /\ ret.inst = i
        /\ stored[i].by = "ctor"
        /\ ret.nanos = stored[i].val
        /\ clock = LastClock
        /\ ret.nanos = StartNano

\* C13: NewWithResolution(d) with d <= 0 fails: the call never returns an instance
\* and never reaches its go statement, so no updateLoop runs for it.
C13_NonPositiveResolutionRejected ==
    \A i \in Inst :
        (ctorPc[i] # "none" /\ resolution[i] <= 0) =>
            /\ ctorPc[i] \in {"L56", "L57", "panicked"}
            /\ loopPc[i] = "none"
            /\ ~ticker[i].set

\* a constructor call with a non-positive resolution has panicked in NewTicker
C13_Witness ==
    \E i \in Inst :
        /\ ctorPc[i] = "panicked"
        /\ resolution[i] < 0
        /\ loopPc[i] = "none"

\* C14: Resolution() returns the duration the constructor call was given (500us
\* for New() and init()), from the construction on and whatever reads, ticks and
\* Stop() calls, failed ones included, follow.
C14_ResolutionIsConstructorArgument ==
    [][\A i \in Inst :
          /\ (ctorPc[i] = "none" /\ ctorPc'[i] # "none") =>
                 \/ (PkgInit \/ New) /\ ResolutionResult(i)' = 500 * Microsecond
                 \/ \E d \in ResolutionInputs :
                        NewWithResolution(d) /\ ResolutionResult(i)' = d
          /\ ctorPc[i] # "none" => ResolutionResult(i)' = ResolutionResult(i)]_vars

\* an instance built with one millisecond has seen ticks, a Stop() and a failed
\* second Stop(), and still reports one millisecond
C14_Witness ==
    \E i \in Inst :
        /\ Live(i)
        /\ ResolutionResult(i) = Millisecond
        /\ stored[i].by = "loop"
        /\ stopLog[i] = <<"ok", "panic">>
        /\ ret.inst = i

\* C15: an instance returned by New(), and the default instance init() builds, is
\* what NewWithResolution(500us) returns: Resolution() is 500us, the ticker has a
\* period of 500us, the initial sample is in place and one updateLoop was started.
C15_NewIsNewWithDefaultResolution ==
    /\ \A i \in Inst :
           (Live(i) /\ ctorBy[i] \in {"New", "init"}) =>
               /\ ResolutionResult(i) = 500 * Microsecond
               /\ ticker[i].set /\ ticker[i].period = 500 * Microsecond
               /\ stored[i].by # "none"
               /\ cachedTimeNano[i] \in Samples
               /\ loopPc[i] # "none"
    /\ InitDone => Live(defaultCache) /\ ctorBy[defaultCache] = "init"

\* the default instance and an instance returned by New() are both in use
C15_Witness ==
    /\ InitDone
    /\ \E i \in Inst : Live(i) /\ ctorBy[i] = "New" /\ ret.inst = i

\* C16: each package-level function does what the method of the same name does on
\* the instance DefaultCache() returns: a step is one exactly when it is the other,
\* so results and effects are the same, before and after the default cache is
\* stopped.
C16_PackageLevelIsMethodOnDefault ==
    [][InitDone =>
          /\ PkgCachedTimeNano <=> CachedTimeNano(DefaultCacheResult)
          /\ PkgCachedTime <=> CachedTime(DefaultCacheResult)
          /\ PkgCachedTimeString <=> CachedTimeString(DefaultCacheResult)
          /\ StopDefaultCache <=> Stop(DefaultCacheResult)]_vars

\* the default instance has been read after it was stopped twice, next to a live
\* instance of a caller
C16_Witness ==
    /\ InitDone
    /\ ret.inst = DefaultCacheResult
    /\ ret.phase = "stopped"
    /\ stopLog[DefaultCacheResult] = <<"ok", "panic">>
    /\ Live("custom")

\* C17: once init() has returned, DefaultCache() returns one and the same non-nil,
\* fully built instance after every step of the program.
C17_DefaultCacheIsOneInstance ==
    [][InitDone =>
          /\ DefaultCacheResult # Nil
          /\ Live(DefaultCacheResult)
          /\ DefaultCacheResult' = DefaultCacheResult]_vars

\* the default instance is stopped, and a caller has built, used and stopped an
\* instance of its own
C17_Witness ==
    /\ InitDone
    /\ stopLog[DefaultCacheResult] # <<>>
    /\ \E i \in Inst : i # DefaultCacheResult /\ Live(i) /\ stopLog[i] # <<>>

C19_StringRoundTrip ==
    \A i \in Inst : Live(i) =>
        LET nanos == AtomicLoadInt64(i)
            str == ReadResult("CachedTimeString", nanos)
            parsed == ParseRFC3339Nano(str)
        IN  /\ str.zone = "Z"
            /\ str.frac # <<>> => str.frac[1] % 10 # 0
            /\ parsed.ok
            /\ UnixNano(parsed.t) = ReadResult("CachedTimeNano", nanos)

\* the cached values of the two instances render with a fraction that has leading
\* zeros and with no fraction at all, and the first has been read
C19_Witness ==
    \E i, j \in Inst :
        /\ Live(i) /\ Live(j)
        /\ ret.inst = i
        /\ ret.nanos = Second + Step
        /\ cachedTimeNano[i] = Second + Step
        /\ cachedTimeNano[j] = Second

\* C20: the reads never block: on every instance whose constructor has returned,
\* CachedTimeNano, CachedTime, CachedTimeString and Resolution can be called and
\* complete in one step in every reachable state, whatever updateLoop is doing
\* and whatever Stop() calls were made; and so can the package-level reads and
\* DefaultCache() once init() has returned.
C20_ReadsNeverBlock ==
    /\ \A i \in Inst : ctorPc[i] = "done" =>
           /\ ENABLED CachedTimeNano(i)
           /\ ENABLED CachedTime(i)
           /\ ENABLED CachedTimeString(i)
           /\ ENABLED Resolution(i)
    /\ defaultCache # Nil =>
           /\ ENABLED PkgCachedTimeNano
           /\ ENABLED PkgCachedTime
           /\ ENABLED PkgCachedTimeString
           /\ ENABLED DefaultCache

\* one instance is read while its updateLoop is about to store and after a Stop()
\* and a failed Stop(); the loop of the other has exited
C20_Witness ==
    \E i, j \in Inst :
        /\ ret.inst = i
        /\ ret.phase = "stopped"
        /\ loopPc[i] = "L71store"
        /\ stopLog[i] = <<"ok", "panic">>
        /\ loopPc[j] = "exited"

\* C21: every go statement of a constructor call runs when the instance has no
\* updateLoop yet and starts one; nothing else starts one; a constructor call
\* that has passed its go statement never comes back to it; and an instance that
\* was returned has its updateLoop.  One goroutine per instance runs the loop, so
\* it handles one tick at a time.
C21_OneUpdateLoopPerInstance ==
    [][\A i \in Inst :
          /\ (ctorPc[i] = "L60" /\ ctorPc'[i] # "L60") =>
                 (loopPc[i] = "none" /\ loopPc'[i] = "select")
          /\ (loopPc[i] = "none" /\ loopPc'[i] # "none") =>
                 (ctorPc[i] = "L60" /\ ctorPc'[i] = "L62")
          /\ loopPc[i] # "none" =>
                 (loopPc'[i] # "none" /\ ctorPc'[i] \in {"L62", "done"})
          /\ Live(i)' => loopPc'[i] # "none"]_vars

\* both instances are returned, the loop of one is handling a tick while the loop
\* of the other waits in its select
C21_Witness ==
    \E i, j \in Inst :
        /\ Live(i) /\ Live(j)
        /\ loopPc[i] = "L71now"
        /\ loopPc[j] = "select"
        /\ ticker[j].C

\* C22: once the constructor has written its sample, the cached value of an
\* instance changes only in a step that is the store of the tick branch of its own
\* updateLoop: not in a read, Resolution(), Stop(), the stop branch, or any step
\* of another instance.
C22_OnlyTickBranchWrites ==
    [][\A i \in Inst :
          (ctorPc[i] \notin {"none", "L56"} /\ cachedTimeNano'[i] # cachedTimeNano[i])
              => LoopStore(i)]_vars

\* the stop branch of an instance has run to its end with the clock ahead of the
\* cached value, after reads and a Stop(), while the other instance was refreshed
C22_Witness ==
    \E i, j \in Inst :
        /\ loopPc[i] = "exited"
        /\ cachedTimeNano[i] < clock
        /\ ret.inst = i
        /\ stored[j].by = "loop"
        /\ cachedTimeNano[j] > cachedTimeNano[i]

\* C23: once updateLoop has taken its stop branch it never takes a branch of the
\* select again: it takes no sample, publishes nothing, and once it has returned
\* it stays so, also with a tick waiting in the ticker's channel.
C23_StopBranchIsFinal ==
    [][\A i \in Inst :
          loopPc[i] \in {"L73", "exited"} =>
              /\ loopPc'[i] \in {"L73", "exited"}
              /\ loopPc[i] = "exited" => loopPc'[i] = "exited"
              /\ now'[i] = now[i]
              /\ cachedTimeNano'[i] = cachedTimeNano[i]]_vars

\* the loop has returned and left a tick in the channel, and the clock has
\* advanced to its last value since the last publish
C23_Witness ==
    \E i \in Inst :
        /\ loopPc[i] = "exited"
        /\ ticker[i].C
        /\ ~ticker[i].running
        /\ clock = LastClock
        /\ cachedTimeNano[i] = StartNano

\* C24: the tick handler takes its sample from the wall clock when it handles the
\* tick, and publishes that sample: not the time the tick was due, not the held
\* value plus the interval.
C24_TickPublishesClockAtHandling ==
    [][\A i \in Inst :
          /\ (loopPc[i] = "L71now" /\ loopPc'[i] = "L71store") => now'[i] = clock
          /\ (loopPc[i] = "L71store" /\ loopPc'[i] = "select") =>
                 cachedTimeNano'[i] = now[i]]_vars

\* a handler of a 500us cache that runs one period late is about
\* to publish a sample two periods past the value the cache holds
C24_Witness ==
    \E i \in Inst :
        /\ resolution[i] = Step
        /\ loopPc[i] = "L71store"
        /\ cachedTimeNano[i] = StartNano
        /\ now[i] = StartNano + 2 * Step
        /\ stopLog[i] = <<>>

\* the default instance is being refreshed: not stopped, its updateLoop in the loop
DefaultRefreshing ==
    /\ defaultCache # Nil
    /\ stopCh[defaultCache] = "open"
    /\ loopPc[defaultCache] \in {"select", "L71now", "L71store"}

\* C25, as claimed: a DefaultCache() call made after StopDefaultCache() leaves the
\* default cache being refreshed: in no state where the default instance is
\* stopped can DefaultCache() return with the default cache not refreshing.
C25_DefaultCacheReinitialises ==
    (defaultCache # Nil /\ stopLog[defaultCache] # <<>>)
        => ~ENABLED (DefaultCache /\ ~DefaultRefreshing')

\* C26: updateLoop leaves its loop only after Stop() was called on its instance,
\* and an instance that was returned and never stopped has its updateLoop in the
\* loop and its ticker running.
C26_LoopExitsOnlyOnStop ==
    \A i \in Inst :
        /\ loopPc[i] \in {"L73", "exited"} => stopLog[i] # <<>> /\ stopLog[i][1] = "ok"
        /\ (Live(i) /\ stopLog[i] = <<>>) =>
               /\ loopPc[i] \in {"select", "L71now", "L71store"}
               /\ ticker[i].running

\* one loop has exited after a Stop(); the other, never stopped, has published at
\* the last value of the clock and waits for the next tick
C26_Witness ==
    \E i, j \in Inst :
        /\ loopPc[i] = "exited"
        /\ Live(j) /\ stopLog[j] = <<>>
        /\ stored[j].by = "loop"
        /\ cachedTimeNano[j] = LastClock
        /\ loopPc[j] = "select"

\* C27: with a clock that never moves backward, the value an instance holds, the
\* sample its handler is about to store and the value the last read returned are
\* never later than the wall clock, before and after Stop().
C27_NeverAheadOfClock ==
    /\ \A i \in Inst : cachedTimeNano[i] <= clock /\ now[i] <= clock
    /\ ret.nanos <= clock

\* an instance was refreshed at the last value of the clock, read, and stopped
C27_Witness ==
    \E i \in Inst :
        /\ cachedTimeNano[i] = clock
        /\ clock = LastClock
        /\ stored[i].by = "loop"
        /\ ret.inst = i /\ ret.nanos = clock
        /\ stopLog[i] # <<>>

\* C28: a Stop() on an instance, failed or not, changes nothing of any other
\* instance: its cached value, ticker, stop channel, resolution, the position of
\* its updateLoop and the record of its own stops are as before.
C28_StopLeavesOtherInstances ==
    [][\A i \in Inst : stopLog'[i] # stopLog[i] =>
          \A j \in Inst \ {i} :
              /\ cachedTimeNano'[j] = cachedTimeNano[j]
              /\ ticker'[j] = ticker[j]
              /\ stopCh'[j] = stopCh[j]
              /\ resolution'[j] = resolution[j]
              /\ loopPc'[j] = loopPc[j]
              /\ now'[j] = now[j]
              /\ stopLog'[j] = stopLog[j]]_vars

\* the default instance was stopped and a second Stop() on it has failed; the
\* instance of a caller, never stopped, has been refreshed since and goes on
C28_Witness ==
    /\ stopLog["default"] = <<"ok", "panic">>
    /\ loopPc["default"] = "exited"
    /\ stopLog["custom"] = <<>>
    /\ stored["custom"].by = "loop"
    /\ cachedTimeNano["custom"] > cachedTimeNano["default"]
    /\ loopPc["custom"] = "L71now"
    /\ ticker["custom"].running

\* C29: a Stop() that fails changes nothing of its instance: the cached value,
\* the resolution, the stop channel (still closed), the ticker and the position
\* of updateLoop are as before, and the reads can be called after it and return
\* the value the instance holds.
C29_FailedStopChangesNothing ==
    [][\A i \in Inst :
          stopLog'[i] = Append(stopLog[i], "panic") =>
              /\ cachedTimeNano'[i] = cachedTimeNano[i]
              /\ ResolutionResult(i)' = ResolutionResult(i)
              /\ stopCh[i] = "closed" /\ stopCh'[i] = "closed"
              /\ ticker'[i] = ticker[i]
              /\ loopPc'[i] = loopPc[i]
              /\ (ENABLED CachedTimeNano(i))'
              /\ AtomicLoadInt64(i)' = AtomicLoadInt64(i)]_vars

\* a second Stop() has failed on an instance whose loop had exited, and a read
\* made after it has returned the value read before the Stop() calls
C29_Witness ==
    \E i \in Inst :
        /\ stopLog[i] = <<"ok", "panic">>
        /\ loopPc[i] = "exited"
        /\ ret.inst = i
        /\ ret.phase = "stopped"
        /\ ret.nanos = cachedTimeNano[i]
        /\ cachedTimeNano[i] < clock

\* C30: the constructor's plain write of the cached value and its assignment of
\* the ticker are done before the go statement and before the return: no
\* updateLoop runs and no caller holds the instance while one of them is still
\* due, and none of them has met a load, a store or a use of the ticker.
C30_InitWritesHappenBefore ==
    /\ \A i \in Inst :
           (loopPc[i] # "none" \/ Live(i)) => pendingInit[i] = {}
    /\ \A i \in Inst :
           ctorPc[i] \in {"L62", "done"} =>
               (stored[i].by # "none" /\ ticker[i].set /\ loopPc[i] # "none")
    /\ ~race

\* the updateLoop of an instance has taken its first tick while the constructor
\* call has not returned yet
C30_Witness ==
    \E i \in Inst :
        /\ ctorPc[i] = "L62"
        /\ loopPc[i] = "L71store"
        /\ stored[i].by = "ctor"
        /\ pendingInit[i] = {}

\* C31: the first Stop() on an instance never blocks: in every state where the
\* instance is returned and not stopped yet Stop() can be called, and every such
\* call completes in that one step, normally, with the stop channel closed and
\* updateLoop where it was: it does not wait for the loop.
C31_FirstStopNeverBlocks ==
    \A i \in Inst : (ctorPc[i] = "done" /\ stopLog[i] = <<>>) =>
        /\ ENABLED Stop(i)
        /\ ~ENABLED (Stop(i) /\ ~(/\ stopLog'[i] = <<"ok">>
                                   /\ stopCh'[i] = "closed"
                                   /\ loopPc'[i] = loopPc[i]))

\* a first Stop() has returned while updateLoop was in the middle of a tick,
\* between its sample and its store
C31_Witness ==
    \E i \in Inst :
        /\ stopLog[i] = <<"ok">>
        /\ loopPc[i] = "L71store"
        /\ now[i] > cachedTimeNano[i]
        /\ ticker[i].running

\* C32: the ticker of an instance is stopped in the stop branch of its updateLoop
\* and nowhere else, once, and it is stopped exactly in the states where the loop
\* has returned: Stop() does not stop it, and no ticker runs on for a loop that
\* has returned.
C32_TickerStoppedWithLoop ==
    [][\A i \in Inst :
          /\ ticker'[i].running # ticker[i].running =>
                 \/ (ctorPc[i] = "L57" /\ ticker'[i].running)
                 \/ (loopPc[i] = "L73" /\ loopPc'[i] = "exited" /\ ~ticker'[i].running)
          /\ (loopPc[i] = "L73" /\ loopPc'[i] = "exited") => ticker[i].running
          /\ loopPc'[i] = "exited" <=> (ticker'[i].set /\ ~ticker'[i].running)
          /\ (ticker[i].set /\ ~ticker[i].running) => ticker'[i] = ticker[i]]_vars

\* Stop() has returned and the ticker still runs, a tick due, for the loop that
\* has not taken its stop branch yet; the ticker of the other instance is
\* stopped, its loop has returned
C32_Witness ==
    \E i, j \in Inst :
        /\ stopLog[i] # <<>>
        /\ ticker[i].running
        /\ ticker[i].C
        /\ loopPc[i] = "select"
        /\ loopPc[j] = "exited"
        /\ ~ticker[j].running

====
